---- MODULE Spec2Model ----
(***************************************************************************)
(* The realtime hub of the attendance service: ConnectionManager of        *)
(* src/ws_manager.py, run by one asyncio event loop.  A coroutine runs     *)
(* without interruption between two awaits, so every action below is the   *)
(* code between two suspension points of one coroutine.  Two further       *)
(* specifications cover src/routers/transactions.py: NormSpec applies      *)
(* _normalize_photo_path to strings built from a small alphabet, and       *)
(* CrudSpec serves create, update and delete requests, one at a time.      *)
(***************************************************************************)
EXTENDS Integers, Sequences, FiniteSets, TLC

\* ---------------------------------------------------------------- bounds
MaxConns  == 2   \* longest _connections list explored
MaxEvents == 3   \* broadcast calls of the single writer (commits c1, c2, c3)
MaxRecords == 2  \* attendance records that exist at a time

\* The WebSocket objects of the run.
Channels == {"ws1", "ws2"}

\* The three event kinds of the wire contract (broadcast's docstring).
Kinds == {"INSERT", "UPDATE", "DELETE"}
Tables == {"transactions"}
\* What the values of a payload can be: JSON values only ("json"), or also
\* an object json.dumps has no encoder for, such as a datetime ("object").
Fields == {"json", "object"}

VARIABLES
    connections,  \* self._connections: a list of WebSocket objects
    accepting,    \* channels whose connect() is suspended in accept()
    bstate,       \* the writer's broadcast call: idle, gather, returned,
                  \* raised (json.dumps raised TypeError to the writer)
    event,        \* number of broadcast calls made so far (commit index)
    tasks,        \* the _send tasks gather() created and has not dropped: a
                  \* pending one holds its message, a settled one its outcome
    pre,          \* history: _connections when the last snapshot was taken
    churn,        \* history: per channel, the last connect/disconnect call that
                  \* finished since the last snapshot was taken ("none": no call)
    received,     \* per channel, data.id of the last message its peer got (0: none yet)
    serialized,   \* instrumentation: the last broadcast call ran json.dumps
    derr,         \* exception the last disconnect() call raised to its caller
    norm,         \* a call of _normalize_photo_path: its argument and results
    crud          \* the attendance records, the upload directory and the last request

hubVars == <<connections, accepting, bstate, event, tasks, pre, churn,
             received, serialized, derr>>

vars == <<hubVars, norm, crud>>

\* ------------------------------------------------------------ list helpers
Range(s) == {s[i] : i \in DOMAIN s}

Contains(s, x) == \E i \in DOMAIN s : s[i] = x

Count(s, x) == Cardinality({i \in DOMAIN s : s[i] = x})

\* list.remove(x): drops the first element equal to x; when there is none it
\* raises ValueError (RemoveRaises) and the list is as it was.
ListRemove(s, x) ==
    IF ~Contains(s, x) THEN s
    ELSE LET k == CHOOSE i \in DOMAIN s : s[i] = x /\ \A j \in 1..(i - 1) : s[j] # x
         IN  SubSeq(s, 1, k - 1) \o SubSeq(s, k + 1, Len(s))

RemoveRaises(s, x) == ~Contains(s, x)

\* ------------------------------------------------------ ConnectionManager
\* `if websocket in self._connections:` of disconnect().
IsRegistered(conns, ws) == Contains(conns, ws)

\* disconnect(): the list it leaves, and the exception it raises.
disconnect(conns, ws) ==
    IF IsRegistered(conns, ws) THEN ListRemove(conns, ws) ELSE conns

disconnectError(conns, ws) ==
    IF IsRegistered(conns, ws) /\ RemoveRaises(conns, ws) THEN "ValueError" ELSE "none"

\* active_count: len(self._connections).
active_count == Len(connections)

\* json.dumps raises TypeError on a value it cannot encode.
Serializable(data) == data.fields = "json"

JsonDumps(kind, table, data) == [event |-> kind, table |-> table, data |-> data]

\* Mutant: the emptiness test is missing.
IsEmptyNever(conns) == FALSE

\* `if not self._connections: return`
IsEmpty(conns) == conns = <<>>

\* Mutant: the snapshot also holds a channel whose accept() is still pending,
\* as if connect() appended before it awaited the handshake.
SnapshotWithPending(conns) ==
    IF accepting = {} THEN conns
    ELSE Append(conns, CHOOSE c \in accepting : TRUE)

\* list(self._connections): the copy the fan-out iterates.
Snapshot(conns) == conns

Settled(t) == t.st \in {"ok", "failed"}

\* One _send task per element of the snapshot, in list order.  gather() wraps
\* each coroutine in a task and the event loop runs the new tasks, one after
\* the other and before anything scheduled later, up to their
\* `await websocket.send_text(message)`: every write is under way ("writing")
\* before another coroutine runs.
NewTasks(snap, ev, msg) ==
    [i \in 1..Len(snap) |-> [ev |-> ev, ws |-> snap[i], msg |-> msg, st |-> "writing"]]

\* A task that is done keeps its outcome only.
Done(t, outcome) == [ev |-> t.ev, ws |-> t.ws, st |-> outcome]

Unsettled(ts) == SelectSeq(ts, LAMBDA t : ~Settled(t))

\* Mutant: the sends are awaited one after the other (`for ws in ...: await
\* self._send(ws, message)`): a write goes on when the ones before it have
\* settled.
CanSettleInTurn(ts, i) ==
    /\ ts[i].st = "writing"
    /\ \A j \in 1..(i - 1) : Settled(ts[j])

\* asyncio.gather runs every _send as a task of its own: a write that is under
\* way completes or fails whatever the other tasks are doing.
CanSettle(ts, i) == ts[i].st = "writing"

\* Mutant: the sends are fired and forgotten (asyncio.create_task without
\* awaiting them).
GatherDoneNoWait(ts, ev) == TRUE

\* `await asyncio.gather(...)` resumes when every task of the call is done.
GatherDone(ts, ev) == \A i \in DOMAIN ts : ts[i].ev = ev => Settled(ts[i])

\* Mutant: the fan-out iterates the live list itself, so a channel appended
\* while it is in flight is sent the event too.
TasksAfterAppendLive(ts, ws, ev) ==
    IF bstate = "gather" /\ \E i \in DOMAIN ts : ~Settled(ts[i])
    THEN LET k == CHOOSE i \in DOMAIN ts : ~Settled(ts[i])
         IN  Append(ts, [ev |-> ev, ws |-> ws, msg |-> ts[k].msg, st |-> "writing"])
    ELSE ts

\* The snapshot is a copy: an append to _connections after it was taken adds
\* nothing to the fan-out in flight.
TasksAfterAppend(ts, ws, ev) == ts

\* Mutant: a failed write is swallowed and the channel stays registered.
SendFailedKeeps(conns, ws) == conns

\* Mutant: a failed write drops the newest registration, whichever channel
\* it belongs to.
SendFailedPops(conns, ws) == SubSeq(conns, 1, Len(conns) - 1)

\* except Exception: self.disconnect(websocket)
SendFailed(conns, ws) == disconnect(conns, ws)

\* No call of the normalizer has been made.
NormIdle == [stage |-> "idle", photo |-> <<>>, out |-> <<>>, again |-> <<>>]

\* The identifiers the database gives to attendance records.
Ids == 1..MaxRecords

\* status.HTTP_200_OK and the other codes the handlers answer with
HTTP_200_OK == 200

HTTP_201_CREATED == 201

HTTP_204_NO_CONTENT == 204

HTTP_400_BAD_REQUEST == 400

HTTP_404_NOT_FOUND == 404

\* No request has been served: no record exists and uploads/ is empty.
\* rows: per identifier, no row ("absent"), a row without photo ("bare") or
\* a row with a photo path ("photo"); files: the rows whose photo file is on
\* disk; orphan: a file was written for a row that was never committed.  The
\* other fields describe the last request served.
CrudIdle ==
    [rows |-> [i \in Ids |-> "absent"], files |-> {}, orphan |-> FALSE,
     op |-> "none", id |-> 0, status |-> 0, committed |-> FALSE,
     removeFailed |-> FALSE, dbOk |-> TRUE, logged |-> FALSE,
     sent |-> <<>>, storage |-> "none"]

\* ConnectionManager.__init__
HubInit ==
    /\ connections = <<>>
    /\ accepting = {}
    /\ bstate = "idle"
    /\ event = 0
    /\ tasks = <<>>
    /\ pre = <<>>
    /\ churn = [c \in Channels |-> "none"]
    /\ received = [c \in Channels |-> 0]
    /\ serialized = FALSE
    /\ derr = "none"

Init ==
    /\ HubInit
    /\ norm = NormIdle
    /\ crud = CrudIdle

\* connect(): up to `await websocket.accept()`.  connect() tests nothing
\* before it: it can be called for a WebSocket object that is already in the
\* list.  One accept per channel is pending at a time.
ConnectCall(c) ==
    /\ c \notin accepting
    /\ Len(connections) + Cardinality(accepting) < MaxConns
    /\ accepting' = accepting \cup {c}
    /\ UNCHANGED <<connections, bstate, event, tasks, pre, churn,
                   received, serialized, derr>>
    /\ UNCHANGED <<norm, crud>>

\* connect(): accept() returned, `self._connections.append(websocket)`.
AcceptOk(c) ==
    /\ c \in accepting
    /\ accepting' = accepting \ {c}
    /\ connections' = Append(connections, c)
    /\ tasks' = TasksAfterAppend(tasks, c, event)
    /\ churn' = IF pre # <<>> THEN [churn EXCEPT ![c] = "connect"] ELSE churn
    /\ UNCHANGED <<bstate, event, pre, received, serialized, derr>>
    /\ UNCHANGED <<norm, crud>>

\* connect(): accept() raised; the exception leaves connect() before the append.
AcceptFail(c) ==
    /\ c \in accepting
    /\ accepting' = accepting \ {c}
    /\ UNCHANGED <<connections, bstate, event, tasks, pre, churn,
                   received, serialized, derr>>
    /\ UNCHANGED <<norm, crud>>

\* disconnect(websocket), for any WebSocket object, registered or not.
Disconnect(c) ==
    /\ connections' = disconnect(connections, c)
    /\ derr' = disconnectError(connections, c)
    /\ churn' = IF pre # <<>> THEN [churn EXCEPT ![c] = "disconnect"] ELSE churn
    /\ UNCHANGED <<accepting, bstate, event, tasks, pre, received, serialized>>
    /\ UNCHANGED <<norm, crud>>

\* broadcast(event, table, data) up to `await asyncio.gather(...)`: the
\* emptiness test, json.dumps, the snapshot and the creation of the tasks.
BroadcastCall(kind, table, f) ==
    /\ bstate # "gather"
    /\ event < MaxEvents
    /\ event' = event + 1
    /\ churn' = [c \in Channels |-> "none"]
    /\ LET data == [id |-> event + 1, fields |-> f] IN
       IF IsEmpty(connections)
       THEN /\ bstate' = "returned"
            /\ tasks' = Unsettled(tasks)
            /\ pre' = <<>>
            /\ serialized' = FALSE
       ELSE IF ~Serializable(data)
       THEN /\ bstate' = "raised"
            /\ serialized' = TRUE
            /\ tasks' = Unsettled(tasks)
            /\ pre' = <<>>
       ELSE /\ bstate' = "gather"
            /\ serialized' = TRUE
            /\ tasks' = Unsettled(tasks) \o
                    NewTasks(Snapshot(connections), event + 1, JsonDumps(kind, table, data))
            /\ pre' = connections
    /\ UNCHANGED <<connections, accepting, received, derr>>
    /\ UNCHANGED <<norm, crud>>

\* send_text returned: the peer of the channel has the message.
SendOk(i) ==
    /\ i \in DOMAIN tasks
    /\ CanSettle(tasks, i)
    /\ tasks' = [tasks EXCEPT ![i] = Done(@, "ok")]
    /\ received' = [received EXCEPT ![tasks[i].ws] = tasks[i].msg.data.id]
    /\ UNCHANGED <<connections, accepting, bstate, event, pre, churn,
                   serialized, derr>>
    /\ UNCHANGED <<norm, crud>>

\* send_text raised: _send swallows the exception and deregisters the channel.
SendFail(i) ==
    /\ i \in DOMAIN tasks
    /\ CanSettle(tasks, i)
    /\ tasks' = [tasks EXCEPT ![i] = Done(@, "failed")]
    /\ connections' = SendFailed(connections, tasks[i].ws)
    /\ UNCHANGED <<accepting, bstate, event, pre, churn, received, serialized, derr>>
    /\ UNCHANGED <<norm, crud>>

\* gather() is done: broadcast returns None to the writer.
BroadcastReturn ==
    /\ bstate = "gather"
    /\ GatherDone(tasks, event)
    /\ bstate' = "returned"
    /\ UNCHANGED <<connections, accepting, event, tasks, pre, churn,
                   received, serialized, derr>>
    /\ UNCHANGED <<norm, crud>>

TaskIds == 1..(MaxConns * MaxEvents)

Next ==
    \/ \E c \in Channels : ConnectCall(c)
    \/ \E c \in Channels : AcceptOk(c)
    \/ \E c \in Channels : AcceptFail(c)
    \/ \E c \in Channels : Disconnect(c)
    \/ \E k \in Kinds, t \in Tables, f \in Fields : BroadcastCall(k, t, f)
    \/ \E i \in TaskIds : SendOk(i)
    \/ \E i \in TaskIds : SendFail(i)
    \/ BroadcastReturn

Spec == Init /\ [][Next]_vars

\* Every write completes or fails, and a coroutine whose awaited gather is
\* done is resumed.
FairSpec ==
    /\ Spec
    /\ WF_vars(\E i \in TaskIds : SendOk(i) \/ SendFail(i))
    /\ WF_vars(BroadcastReturn)

\* ================================================================
\* src/routers/transactions.py: _normalize_photo_path.  A Python str is a
\* sequence of one-character strings; None is a value no str is equal to.
\* ================================================================

\* The longest argument, counted in the pieces of Chunks it is made of.
MaxChunks == 4

None == <<"None">>

\* `None.replace` raises: what a call returns when it does not return.
AttributeError == <<"AttributeError">>

Http == <<"h", "t", "t", "p", ":", "/", "/">>

Https == <<"h", "t", "t", "p", "s", ":", "/", "/">>

\* The literal "uploads/" of tok.find and candidate.startswith.
UploadsMarker == <<"u", "p", "l", "o", "a", "d", "s", "/">>

\* [A-Za-z], over the characters arguments are made of.
Letters == {"a", "d", "h", "l", "o", "p", "s", "t", "u"}

\* \s, over the characters arguments are made of.
Whitespace == {" "}

\* [\s,;]
Separators == Whitespace \cup {",", ";"}

\* Arguments are made of a letter, ':', '/', '\', a blank, ',', ';', the
\* marker and the two URL schemes.
Chunks == {Http, Https, UploadsMarker,
           <<"a">>, <<":">>, <<"/">>, <<"\\">>, <<" ">>, <<",">>, <<";">>}

RECURSIVE Flatten(_)
Flatten(cs) == IF cs = <<>> THEN <<>> ELSE Head(cs) \o Flatten(Tail(cs))

Photos ==
    {None} \cup
    {Flatten(cs) : cs \in UNION {[1..n -> Chunks] : n \in 0..MaxChunks}}

\* Mutant: the string is left as it is, backslashes included.
replaceNothing(s, old, new) == s

\* str.replace(old, new) for one-character old and new
replace(s, old, new) == [i \in DOMAIN s |-> IF s[i] = old THEN new ELSE s[i]]

\* str.lstrip(chars)
RECURSIVE lstrip(_, _)
lstrip(s, chars) ==
    IF s = <<>> \/ s[1] \notin chars THEN s ELSE lstrip(Tail(s), chars)

\* str.rstrip(chars)
RECURSIVE rstrip(_, _)
rstrip(s, chars) ==
    IF s = <<>> \/ s[Len(s)] \notin chars THEN s
    ELSE rstrip(SubSeq(s, 1, Len(s) - 1), chars)

\* str.strip()
strip(s) == rstrip(lstrip(s, Whitespace), Whitespace)

\* str.startswith(prefix)
startswith(s, prefix) ==
    Len(s) >= Len(prefix) /\ SubSeq(s, 1, Len(prefix)) = prefix

\* The 0-based offsets at which sub occurs in s.
Offsets(s, sub) ==
    {k \in 0..(Len(s) - Len(sub)) : SubSeq(s, k + 1, k + Len(sub)) = sub}

Min(S) == CHOOSE x \in S : \A y \in S : x <= y

Max(S) == CHOOSE x \in S : \A y \in S : x >= y

\* Mutant: str.rfind, the highest offset.
rfind(s, sub) == IF Offsets(s, sub) = {} THEN -1 ELSE Max(Offsets(s, sub))

\* str.find(sub): the lowest offset, -1 when there is none
find(s, sub) == IF Offsets(s, sub) = {} THEN -1 ELSE Min(Offsets(s, sub))

\* re.split(r"[\s,;]+", s): the pieces between the runs of separators, the
\* empty pieces at the ends included.
RECURSIVE re_split(_)
re_split(s) ==
    IF \A i \in DOMAIN s : s[i] \notin Separators THEN <<s>>
    ELSE LET i == Min({k \in DOMAIN s : s[k] \in Separators})
         IN <<SubSeq(s, 1, i - 1)>> \o
            re_split(lstrip(SubSeq(s, i, Len(s)), Separators))

\* re.sub(r'^[A-Za-z]:', '', tok)
re_sub_drive(tok) ==
    IF Len(tok) >= 2 /\ tok[1] \in Letters /\ tok[2] = ":"
    THEN SubSeq(tok, 3, Len(tok))
    ELSE tok

\* Python truth of an Optional[str]
Truthy(v) == v # None /\ v # <<>>

\* Mutant: only "http://" is taken for a URL.
IsUrlHttpOnly(tok) == startswith(tok, Http)

\* tok.startswith("http://") or tok.startswith("https://")
IsUrl(tok) == startswith(tok, Http) \/ startswith(tok, Https)

\* Mutant: `if photo == "":`, which lets None through to `photo.replace`.
NotPhotoEmptyOnly(photo) == photo = <<>>

\* `not photo`
NotPhoto(photo) == ~Truthy(photo)

\* _extract_from_token(tok)
extract_from_token(tok0) ==
    LET tok == strip(tok0) IN
    IF tok = <<>> THEN None
    ELSE IF IsUrl(tok) THEN tok
    ELSE LET t == lstrip(re_sub_drive(tok), {"/"})
             idx == find(t, UploadsMarker)
         IN IF idx # -1 THEN SubSeq(t, idx + 1, Len(t))
            ELSE IF startswith(t, UploadsMarker) THEN t
            ELSE IF t = <<>> THEN None ELSE t

\* tokens = [t for t in re.split(r"[\s,;]+", raw) if t]
Tokens(photo) ==
    LET raw == strip(replace(photo, "\\", "/"))
    IN SelectSeq(re_split(raw), LAMBDA t : t # <<>>)

\* _normalize_photo_path(photo)
normalize_photo_path(photo) ==
    IF NotPhoto(photo) THEN None
    ELSE IF photo = None THEN AttributeError
    ELSE LET tokens == Tokens(photo)
             candidate == [i \in DOMAIN tokens |-> extract_from_token(tokens[i])]
             marked == {i \in DOMAIN tokens :
                           Truthy(candidate[i]) /\ startswith(candidate[i], UploadsMarker)}
             some == {i \in DOMAIN tokens : Truthy(candidate[i])}
         IN IF marked # {} THEN candidate[Min(marked)]
            ELSE IF some # {} THEN candidate[Min(some)]
            ELSE None

\* A caller is about to pass some argument to the normalizer.
NormInit ==
    /\ HubInit
    /\ crud = CrudIdle
    /\ \E p \in Photos :
          norm = [stage |-> "called", photo |-> p, out |-> <<>>, again |-> <<>>]

\* The call returns (or raises).
Normalize ==
    /\ norm.stage = "called"
    /\ norm' = [norm EXCEPT !.stage = "once", !.out = normalize_photo_path(norm.photo)]
    /\ UNCHANGED <<hubVars, crud>>

\* The result is passed to the normalizer again, as when a client sends back
\* the path a response gave it.
Renormalize ==
    /\ norm.stage = "once"
    /\ norm.out # AttributeError
    /\ norm' = [norm EXCEPT !.stage = "twice", !.again = normalize_photo_path(norm.out)]
    /\ UNCHANGED <<hubVars, crud>>

NormNext == Normalize \/ Renormalize

NormSpec == NormInit /\ [][NormNext]_vars

\* ================================================================
\* src/routers/transactions.py: create_transaction, update_transaction and
\* delete_transaction, and src/storage.py: delete_photo.  The handlers share
\* no state but the database and the upload directory, and each action is one
\* request from its first line to its response; what the database, the disk
\* and the storage service answer is an input of the request.
\* ================================================================

\* The ORM and disk exceptions the handlers do not catch become a 500.
HTTP_500_INTERNAL_SERVER_ERROR == 500

\* The kind of change event the hub's docstring names for each operation.
KindOf(op) ==
    CASE op = "create" -> "INSERT"
      [] op = "update" -> "UPDATE"
      [] op = "delete" -> "DELETE"

\* What a handler hands to manager.broadcast between its commit and its
\* return: no handler of the router imports or calls the hub.
Notified(op, id) == <<>>

\* The response of a request and what the request met on its way.
Served(c, op, id, code, committed, removeFailed, dbOk, logged) ==
    [c EXCEPT !.op = op, !.id = id, !.status = code, !.committed = committed,
              !.removeFailed = removeFailed, !.dbOk = dbOk, !.logged = logged,
              !.sent = IF committed THEN Notified(op, id) ELSE <<>>,
              !.storage = "none"]

\* POST /: stamp_type and timestamp are validated, the photo (if any) is
\* written under uploads/, the row is added and committed.
CreateTransaction(id, stampOk, tsOk, hasPhoto, writeOk, dbOk) ==
    /\ crud.rows[id] = "absent"
    /\ crud' =
         IF ~stampOk \/ ~tsOk
         THEN Served(crud, "create", id, HTTP_400_BAD_REQUEST, FALSE, FALSE, dbOk, FALSE)
         ELSE IF hasPhoto /\ ~writeOk
         THEN Served(crud, "create", id, HTTP_500_INTERNAL_SERVER_ERROR, FALSE, FALSE, dbOk, FALSE)
         ELSE IF ~dbOk
         THEN Served([crud EXCEPT !.orphan = @ \/ hasPhoto],
                     "create", id, HTTP_500_INTERNAL_SERVER_ERROR, FALSE, FALSE, dbOk, FALSE)
         ELSE Served([crud EXCEPT !.rows[id] = IF hasPhoto THEN "photo" ELSE "bare",
                                  !.files = IF hasPhoto THEN @ \cup {id} ELSE @],
                     "create", id, HTTP_201_CREATED, TRUE, FALSE, dbOk, FALSE)
    /\ UNCHANGED <<hubVars, norm>>

\* PUT /{transaction_id}
UpdateTransaction(id, stampOk, dbOk) ==
    /\ crud' =
         IF crud.rows[id] = "absent"
         THEN Served(crud, "update", id, HTTP_404_NOT_FOUND, FALSE, FALSE, dbOk, FALSE)
         ELSE IF ~stampOk
         THEN Served(crud, "update", id, HTTP_400_BAD_REQUEST, FALSE, FALSE, dbOk, FALSE)
         ELSE IF ~dbOk
         THEN Served(crud, "update", id, HTTP_500_INTERNAL_SERVER_ERROR, FALSE, FALSE, dbOk, FALSE)
         ELSE Served(crud, "update", id, HTTP_200_OK, TRUE, FALSE, dbOk, FALSE)
    /\ UNCHANGED <<hubVars, norm>>

\* Mutant: the handler has no try around os.remove, and OSError leaves it.
AfterRemoveUncaught(removeOk) == IF removeOk THEN "delete" ELSE "abort"

\* try: os.remove(transaction.photo) / except Exception: print(...): whatever
\* os.remove did, the handler goes on to db.delete.
AfterRemove(removeOk) == "delete"

\* DELETE /{transaction_id}
DeleteTransaction(id, removeOk, dbOk) ==
    /\ crud' =
         IF crud.rows[id] = "absent"
         THEN Served(crud, "delete", id, HTTP_404_NOT_FOUND, FALSE, FALSE, dbOk, FALSE)
         ELSE LET onDisk == crud.rows[id] = "photo" /\ id \in crud.files
                  failed == onDisk /\ ~removeOk
                  files == IF onDisk /\ removeOk THEN crud.files \ {id} ELSE crud.files
                  c == [crud EXCEPT !.files = files]
              IN IF onDisk /\ AfterRemove(removeOk) = "abort"
                 THEN Served(c, "delete", id, HTTP_500_INTERNAL_SERVER_ERROR, FALSE, failed, dbOk, FALSE)
                 ELSE IF ~dbOk
                 THEN Served(c, "delete", id, HTTP_500_INTERNAL_SERVER_ERROR, FALSE, failed, dbOk, failed)
                 ELSE Served([c EXCEPT !.rows[id] = "absent"],
                             "delete", id, HTTP_204_NO_CONTENT, TRUE, failed, dbOk, failed)
    /\ UNCHANGED <<hubVars, norm>>

\* What the public URL given to delete_photo looks like: not a str (None),
\* ending in "/", with no "/" at all, or .../photos/<filename>.
PhotoUrls == {"none", "trailing_slash", "no_slash", "public_url"}

\* The exception raised inside the try block of delete_photo, if any.
DeletePhotoRaises(url, configured, remoteOk) ==
    IF url = "none" THEN "AttributeError"
    ELSE IF url = "trailing_slash" THEN "no"
    ELSE IF ~configured THEN "RuntimeError"
    ELSE IF ~remoteOk THEN "StorageException"
    ELSE "no"

\* delete_photo(photo_url): `except Exception` catches what the body raises.
delete_photo(url, configured, remoteOk) ==
    IF DeletePhotoRaises(url, configured, remoteOk) = "no"
    THEN [result |-> "returned", logged |-> FALSE]
    ELSE [result |-> "returned", logged |-> TRUE]

DeletePhoto(url, configured, remoteOk) ==
    /\ crud' = [crud EXCEPT !.op = "delete_photo", !.id = 0, !.status = 0,
                            !.committed = FALSE, !.removeFailed = FALSE,
                            !.dbOk = TRUE, !.sent = <<>>,
                            !.storage = delete_photo(url, configured, remoteOk).result,
                            !.logged = delete_photo(url, configured, remoteOk).logged]
    /\ UNCHANGED <<hubVars, norm>>

CrudInit ==
    /\ HubInit
    /\ norm = NormIdle
    /\ crud = CrudIdle

CrudNext ==
    \/ \E id \in Ids, stampOk, tsOk, hasPhoto, writeOk, dbOk \in BOOLEAN :
          CreateTransaction(id, stampOk, tsOk, hasPhoto, writeOk, dbOk)
    \/ \E id \in Ids, stampOk, dbOk \in BOOLEAN : UpdateTransaction(id, stampOk, dbOk)
    \/ \E id \in Ids, removeOk, dbOk \in BOOLEAN : DeleteTransaction(id, removeOk, dbOk)
    \/ \E url \in PhotoUrls, configured, remoteOk \in BOOLEAN :
          DeletePhoto(url, configured, remoteOk)

CrudSpec == CrudInit /\ [][CrudNext]_vars

\* ------------------------------------------------------------ vocabulary
\* The _send tasks of the broadcast call in progress (or just finished).
CurTasks == {i \in DOMAIN tasks : tasks[i].ev = event}

CurSeq == SelectSeq(tasks, LAMBDA t : t.ev = event)

\* The channels the current broadcast attempts, in order.
Targets == [i \in DOMAIN CurSeq |-> CurSeq[i].ws]

FailedTasks == {i \in CurTasks : tasks[i].st = "failed"}

\* F: the channels a write of the current broadcast failed for.
FailedSet == {tasks[i].ws : i \in FailedTasks}

FailedCount(c) == Cardinality({i \in FailedTasks : tasks[i].ws = c})

NoChurn == \A c \in Channels : churn[c] = "none"

NoDuplicates(s) == \A i, j \in DOMAIN s : s[i] = s[j] => i = j

\* ------------------------------------------------------------------ C1
\* C1: when a broadcast over N >= 1 registrations returns and no connect or
\* disconnect ran during it, every snapshot channel none of whose writes
\* failed has the event's message, every failed write has taken one
\* registration of its channel out of the list and nothing else changed:
\* active_count = N - (number of failed writes), and for a snapshot without
\* repeated channels the live set is the snapshot minus F.
C1_FanOutPrunesFailed ==
    (bstate = "returned" /\ pre # <<>> /\ NoChurn) =>
        /\ \A c \in Range(pre) : c \notin FailedSet => received[c] = event
        /\ \A c \in Channels : Count(connections, c) = Count(pre, c) - FailedCount(c)
        /\ active_count = Len(pre) - Cardinality(FailedTasks)
        /\ NoDuplicates(pre) => Range(connections) = Range(pre) \ FailedSet

\* Two distinct channels, the write to one failed: the other got the message
\* and is the only one still registered.
C1_Witness ==
    /\ bstate = "returned" /\ NoChurn
    /\ Len(pre) = 2 /\ NoDuplicates(pre)
    /\ Cardinality(FailedTasks) = 1
    /\ active_count = 1
    /\ \E c \in Range(pre) : c \notin FailedSet /\ received[c] = event

\* ------------------------------------------------------------------ C2
\* C2: broadcast never raises to its caller, whatever the event kind, table,
\* payload and write failures: no broadcast call ends with an exception.
C2_BroadcastNeverRaises == bstate # "raised"

\* ------------------------------------------------------------------ C3
\* C3: the channels a broadcast attempts are exactly the live list at the
\* moment it took its snapshot, whatever connect and disconnect calls run
\* during the fan-out, and a channel that is not in the snapshot never gets
\* the event.
C3_AttemptsAreTheSnapshot ==
    /\ Targets = pre
    /\ \A c \in Channels : (event > 0 /\ received[c] = event) => c \in Range(pre)

\* During a fan-out one snapshot channel was deregistered and a channel that
\* is not in the snapshot was registered; every write has settled.
C3_Witness ==
    /\ bstate = "gather"
    /\ \A i \in CurTasks : Settled(tasks[i])
    /\ \E c \in Range(pre) : churn[c] = "disconnect"
    /\ \E c \in Channels \ Range(pre) :
           churn[c] = "connect" /\ c \in Range(connections) /\ received[c] # event

\* ------------------------------------------------------------------ C4
\* C4: disconnect is idempotent and total: for every live list the hub can
\* hold and every channel, a first and a second call raise nothing, the
\* second call leaves the list the first one left, a call for a channel that
\* is not registered changes nothing, and the registrations of the other
\* channels are untouched.
C4_DisconnectIdempotent ==
    \A c \in Channels :
        LET once  == disconnect(connections, c)
            twice == disconnect(once, c)
        IN  /\ disconnectError(connections, c) = "none"
            /\ disconnectError(once, c) = "none"
            /\ derr = "none"
            /\ twice = once
            /\ ~Contains(connections, c) => once = connections
            /\ \A d \in Channels \ {c} : Count(twice, d) = Count(connections, d)

\* ------------------------------------------------------------------ C5
\* C5: when disconnect(c) was called for a snapshot channel c while the
\* broadcast was in flight (and c was not registered again), then once every
\* write of the broadcast has settled no error was raised, every other
\* snapshot channel without a failed write has the message, and c is not in
\* the live list.
C5_DeregisterDuringBroadcast ==
    \A c \in Range(pre) :
        (bstate = "gather" /\ churn[c] = "disconnect"
            /\ \A i \in CurTasks : Settled(tasks[i])) =>
            /\ derr = "none"
            /\ \A d \in Range(pre) \ {c} : d \notin FailedSet => received[d] = event
            /\ ~Contains(connections, c)

\* ------------------------------------------------------------------ C6
\* C6: with the writer starting each broadcast after the previous one
\* returned, the commit index of the messages a channel gets never goes down:
\* no channel gets an event after a later-committed one.
C6_CommitOrder ==
    [][\A c \in Channels : received'[c] >= received[c]]_vars

\* A channel that has the message of commit 2 is being written the message
\* of commit 3.
C6_Witness ==
    \E i \in CurTasks :
        /\ event = 3
        /\ tasks[i].st = "writing"
        /\ received[tasks[i].ws] = 2

\* ------------------------------------------------------------------ C7
\* C7: whenever broadcast has returned, no _send task is still pending, and
\* (writes completing or failing, tasks being run) a broadcast that is
\* waiting in gather eventually returns.
C7_ReturnsAfterAllSettled ==
    /\ [](bstate = "returned" => \A i \in DOMAIN tasks : Settled(tasks[i]))
    /\ (bstate = "gather") ~> (bstate = "returned")

\* A broadcast over two registrations has returned: one write succeeded, one
\* failed and its channel is out of the list.
C7_Witness ==
    /\ bstate = "returned"
    /\ Len(pre) = 2
    /\ \E i, j \in CurTasks : tasks[i].st = "ok" /\ tasks[j].st = "failed"
    /\ \A c \in FailedSet : ~Contains(connections, c)

\* ------------------------------------------------------------------ C8
\* C8: while the write to one channel is slow (under way, not settled) or
\* has failed, the send to every other snapshot entry, before or after it in
\* the list, is not held back: when it is under way it can complete.
C8_BadChannelNeverBlocks ==
    \A i, j \in DOMAIN tasks :
        (i # j /\ tasks[i].st \in {"writing", "failed"}) =>
            (tasks[j].st = "writing" => ENABLED SendOk(j))

\* The write to the first snapshot entry is still pending and the peer of the
\* second, another channel, already has the message.
C8_Witness ==
    /\ bstate = "gather"
    /\ Len(tasks) = 2
    /\ tasks[1].st = "writing"
    /\ tasks[2].st = "ok"
    /\ tasks[1].ws # tasks[2].ws
    /\ received[tasks[2].ws] = event

\* ------------------------------------------------------------------ C9
\* C9: fan-out is at-most-once: a broadcast call makes at most one send
\* attempt per channel, whatever connect and disconnect calls preceded it.
C9_AtMostOnce ==
    \A c \in Channels : Cardinality({i \in CurTasks : tasks[i].ws = c}) <= 1

\* ----------------------------------------------------------------- C10
\* C10: a broadcast call made while the live list is empty does not run
\* json.dumps, creates no send, has returned when the step is over and leaves
\* the list empty.
C10_EmptyIsNoOp ==
    [][(event' = event + 1 /\ connections = <<>>) =>
          /\ serialized' = FALSE
          /\ bstate' = "returned"
          /\ connections' = <<>>
          /\ \A i \in DOMAIN tasks' : tasks'[i].ev # event']_vars

\* A broadcast was called on an empty list and returned without serializing.
C10_Witness ==
    /\ event > 0
    /\ bstate = "returned"
    /\ pre = <<>>
    /\ connections = <<>>
    /\ tasks = <<>>
    /\ ~serialized

\* ----------------------------------------------------------------- C19
\* C19: once disconnect(c) has returned and until c is registered again, c is
\* not in the live list and a broadcast started in that time creates no send
\* for c; equivalently, the live list never holds a channel twice.
C19_DeregisteredIsGone ==
    /\ [](/\ NoDuplicates(connections)
          /\ \A c \in Channels : churn[c] = "disconnect" => ~Contains(connections, c))
    /\ [][\A c \in Channels :
            (event' = event + 1 /\ churn[c] = "disconnect") =>
                \A i \in DOMAIN tasks' : tasks'[i].ev = event' => tasks'[i].ws # c]_vars

\* ----------------------------------------------------------------- C20
\* C20: when broadcast has returned, a channel nobody connected or
\* disconnected since the snapshot holds as many registrations as in the
\* snapshot less its own failed sends (none more, and none less for another
\* channel's failure); a channel outside the snapshot is registered only if it
\* was connected meanwhile; and a channel whose last call since the snapshot
\* was a connect and that had no failed send is still registered.
C20_BroadcastFrame ==
    (bstate = "returned" /\ pre # <<>>) =>
        \A c \in Channels :
            /\ churn[c] = "none" =>
                   Count(connections, c) = Count(pre, c) - FailedCount(c)
            /\ (churn[c] = "connect" /\ c \notin FailedSet) =>
                   Contains(connections, c)

\* A broadcast to ws-a and ws-b returned: one send succeeded and its channel
\* is still registered, the other failed and its channel is gone, and nobody
\* connected or disconnected meanwhile.
C20_Witness ==
    /\ bstate = "returned"
    /\ NoChurn
    /\ Len(pre) = 2
    /\ \E c, d \in Range(pre) :
          /\ c \notin FailedSet /\ Contains(connections, c) /\ received[c] = event
          /\ d \in FailedSet /\ ~Contains(connections, d)

\* ----------------------------------------------------------------- C11
\* C11: a create, update or delete request whose commit succeeded has handed
\* exactly one change event of its kind (INSERT, UPDATE, DELETE) to the hub
\* when it returns, and a request that was rejected or whose commit failed
\* has handed none.
C11_CommitNotifiesOnce ==
    crud.op \in {"create", "update", "delete"} =>
        /\ crud.committed => Len(crud.sent) = 1 /\ crud.sent[1].event = KindOf(crud.op)
        /\ ~crud.committed => crud.sent = <<>>

\* ----------------------------------------------------------------- C13
\* C13: a failure to remove the photo file in delete_transaction is logged
\* and does not stop the request: unless the database itself fails, the row is
\* deleted and committed and the answer is 204; and delete_photo returns to
\* its caller whatever its argument, its client and the storage service do.
C13_PhotoFailureNotFatal ==
    /\ (crud.op = "delete" /\ crud.removeFailed) =>
          /\ crud.logged
          /\ crud.dbOk =>
                /\ crud.committed
                /\ crud.status = HTTP_204_NO_CONTENT
                /\ crud.rows[crud.id] = "absent"
    /\ crud.op = "delete_photo" => crud.storage = "returned"

\* A row with a photo was deleted although os.remove failed: the failure was
\* logged, the row is gone and its file is still in uploads/.
C13_Witness ==
    /\ crud.op = "delete"
    /\ crud.removeFailed
    /\ crud.logged
    /\ crud.status = HTTP_204_NO_CONTENT
    /\ crud.rows[crud.id] = "absent"
    /\ crud.id \in crud.files

\* ------------------------------------------- vocabulary of the normalizer
\* The normalizer has returned to its caller.
Returned == norm.stage \in {"once", "twice"}

\* A token that begins with http:// or https://.
HasScheme(tok) == startswith(tok, Http) \/ startswith(tok, Https)

\* A token that contains "uploads/".
ContainsMarker(tok) == Offsets(tok, UploadsMarker) # {}

\* A token without its drive prefix and its leading slashes.
Cleaned(tok) == lstrip(re_sub_drive(tok), {"/"})

\* The part of a token from its first "uploads/" on.
FromMarker(tok) == SubSeq(tok, Min(Offsets(tok, UploadsMarker)) + 1, Len(tok))

\* The tokens of the argument that begin with a URL scheme.
UrlTokens(photo) ==
    {i \in DOMAIN Tokens(photo) : HasScheme(Tokens(photo)[i])}

\* The tokens that do not begin with a URL scheme and contain the marker.
MarkedTokens(photo) ==
    {i \in DOMAIN Tokens(photo) :
        ~HasScheme(Tokens(photo)[i]) /\ ContainsMarker(Tokens(photo)[i])}

\* An argument that is one absolute URL: it begins with a scheme and holds
\* no blank and no backslash.
IsAbsoluteUrl(photo) ==
    /\ photo # None
    /\ HasScheme(photo)
    /\ \A i \in DOMAIN photo : photo[i] \notin Whitespace \cup {"\\"}

\* ----------------------------------------------------------------- C14
\* C14: the normalizer is idempotent: normalizing its result again gives the
\* same result, for None and for every string over a letter, ':', '/', '\',
\* blank, ',', ';' and the marker.
C14_Idempotent == norm.stage = "twice" => norm.again = norm.out

\* ----------------------------------------------------------------- C15
\* C15 (as stated): the first token that begins with http:// or https:// is
\* the result whenever no token before it yields a result that starts with
\* the marker; no later marker token and no earlier fallback token overrides it.
C15_UrlShortCircuits ==
    (Returned /\ norm.photo # None /\ UrlTokens(norm.photo) # {}) =>
        LET tokens == Tokens(norm.photo)
            k == Min(UrlTokens(norm.photo))
        IN (\A j \in 1..(k - 1) :
               ~startswith(extract_from_token(tokens[j]), UploadsMarker))
           => norm.out = tokens[k]

\* C15 (amended): for an argument with a URL token, the result is the part
\* from the marker on of the first token that does not begin with a scheme and
\* contains the marker, wherever that token stands; if there is none, it is the
\* first token before the URL that cleans to a non-empty string; only if there
\* is none either is it the first URL token, character for character.
C15_UrlIsLastResort ==
    (Returned /\ norm.photo # None /\ UrlTokens(norm.photo) # {}) =>
        LET tokens == Tokens(norm.photo)
            k == Min(UrlTokens(norm.photo))
            marked == MarkedTokens(norm.photo)
            earlier == {j \in 1..(k - 1) : Cleaned(tokens[j]) # <<>>}
        IN IF marked # {}
           THEN norm.out = FromMarker(tokens[Min(marked)])
           ELSE IF earlier # {}
           THEN norm.out = Cleaned(tokens[Min(earlier)])
           ELSE norm.out = tokens[k]

\* "/ http://a": the token before the URL cleans to nothing, no token holds
\* the marker, and the URL is returned as it is.
C15_Witness ==
    /\ norm.stage = "once"
    /\ norm.photo = <<"/", " ">> \o Http \o <<"a">>
    /\ norm.out = Http \o <<"a">>

\* ----------------------------------------------------------------- C16
\* C16: for an argument with no URL token, the result is the part from the
\* marker on of the first token that contains the marker; if no token contains
\* it, the first token that is non-empty once its drive prefix and leading
\* slashes are removed, in that form; and None only if there is no such token.
C16_MarkerThenFallback ==
    (Returned /\ norm.photo # None /\ UrlTokens(norm.photo) = {}) =>
        LET tokens == Tokens(norm.photo)
            marked == MarkedTokens(norm.photo)
            nonempty == {j \in DOMAIN tokens : Cleaned(tokens[j]) # <<>>}
        IN IF marked # {}
           THEN norm.out = FromMarker(tokens[Min(marked)])
           ELSE IF nonempty # {}
           THEN norm.out = Cleaned(tokens[Min(nonempty)])
           ELSE norm.out = None

\* "a:\uploads/": after the backslash is converted and the drive prefix
\* and the leading slash are removed, the token holds the marker and the
\* result is the part from the marker on.
C16_Witness ==
    /\ Returned
    /\ norm.photo = <<"a", ":", "\\">> \o UploadsMarker
    /\ norm.out = UploadsMarker

\* ----------------------------------------------------------------- C17
\* C17: an argument that is an absolute http:// or https:// URL is returned
\* unchanged, character for character.
C17_UrlUnchanged ==
    (Returned /\ IsAbsoluteUrl(norm.photo)) => norm.out = norm.photo

\* ----------------------------------------------------------------- C18
\* C18: the normalizer always returns, and returns None or a non-empty
\* string, never the empty string; for None, the empty string and a string of
\* blanks only it returns None.
C18_Total ==
    Returned =>
        /\ norm.out # AttributeError
        /\ norm.out # <<>>
        /\ (norm.photo = None \/ \A i \in DOMAIN norm.photo : norm.photo[i] \in Whitespace)
              => norm.out = None
        /\ norm.stage = "twice" => (norm.again # AttributeError /\ norm.again # <<>>)

\* " a:,": separators around a drive prefix; the only token cleans to
\* nothing and the result is None, not the empty string.
C18_Witness ==
    /\ norm.stage = "once"
    /\ norm.photo = <<" ", "a", ":", ",">>
    /\ norm.out = None

\* ----------------------------------------------------------------- C21
\* C21: a channel is appended to the live list only by the step in which its
\* accept() returns, and once per such step: entering accept() registers
\* nothing, an accept() that fails leaves the list as it was, and a broadcast
\* that takes its snapshot while a channel's accept() is pending (the channel
\* not being registered already) creates no send for that channel.
C21_RegisterAfterAccept ==
    [][\A c \in Channels :
          /\ (c \notin accepting /\ c \in accepting') => connections' = connections
          /\ Count(connections', c) > Count(connections, c) =>
                /\ c \in accepting /\ c \notin accepting'
                /\ connections' = Append(connections, c)
          /\ (event' = event + 1 /\ c \in accepting /\ ~Contains(connections, c)) =>
                \A i \in DOMAIN tasks' : tasks'[i].ev = event' => tasks'[i].ws # c]_vars

\* A broadcast to the only registered channel has settled while another
\* channel is still in accept(): that channel is not registered, was not in
\* the snapshot and got nothing.
C21_Witness ==
    /\ bstate = "gather"
    /\ Len(pre) = 1
    /\ \A i \in CurTasks : Settled(tasks[i])
    /\ \E c \in accepting :
          /\ ~Contains(connections, c)
          /\ c \notin Range(pre)
          /\ received[c] # event

\* ----------------------------------------------------------------- C22
\* C22: a result that is not None holds no backslash, no blank, no comma and
\* no semicolon; if it does not begin with http:// or https:// it does not
\* begin with '/'; and if some token of the argument that is not a URL
\* contains the marker and no URL token stands before it, the result begins
\* with "uploads/".
C22_ResultShape ==
    (Returned /\ norm.out # None) =>
        /\ \A i \in DOMAIN norm.out : norm.out[i] \notin Separators \cup {"\\"}
        /\ ~HasScheme(norm.out) => (norm.out # <<>> /\ norm.out[1] # "/")
        /\ (\E i \in MarkedTokens(norm.photo) :
               \A j \in UrlTokens(norm.photo) : j > i)
              => startswith(norm.out, UploadsMarker)

\* "\a\a": the backslashes come out as slashes and the leading one is gone.
C22_Witness ==
    /\ norm.stage = "once"
    /\ norm.photo = <<"\\", "a", "\\", "a">>
    /\ norm.out = <<"a", "/", "a">>

====
